---- MODULE Spec2Model ----
(***************************************************************************)
(* SynSplit: the split resolver and the balance / debt engine of           *)
(* src/src/lib/splitCalculator.ts, with the ledger that feeds them         *)
(* (useBalances in the hooks module), and the edit and delete buttons of   *)
(* the Expenses page (src/src/pages/Expenses.tsx).                         *)
(*                                                                         *)
(* Money.  The source computes with JavaScript numbers in currency units.  *)
(* The model keeps every amount as an integer number of mills (1/1000 of   *)
(* a currency unit), so 0.01 is 10 and 0.005 is 5, and computes quotients  *)
(* exactly: Math.round(x * 100) / 100 is Round2 below, which rounds the    *)
(* exact rational to the nearest cent, halves towards +infinity, as        *)
(* Math.round does.                                                        *)
(*                                                                         *)
(* Doubles.  A double differs from the exact value by far less than a      *)
(* mill, so it decides a comparison or a rounding as the exact value does  *)
(* except where the exact value sits on the boundary.  The model leaves    *)
(* those cases open instead of deciding them:                              *)
(*   - a quotient that is exactly a half cent may reach Math.round just    *)
(*     below the half and round down ((0.29 / 2) * 100 is                  *)
(*     14.499999999999998): halfDown says whether it did;                  *)
(*   - a remainder of exactly one cent left by a subtraction in            *)
(*     calculateDebts may compare below, equal to or above 0.01            *)
(*     (0.03 - 0.02 < 0.01 < 0.04 - 0.03): calculateDebts is the set of    *)
(*     Debt lists these outcomes allow.                                    *)
(*                                                                         *)
(* Record<string, number> is a function from a finite set of uids to       *)
(* amounts; the empty object is EmptyMap.  An optional splitDetails is a   *)
(* record [present, map].                                                  *)
(***************************************************************************)
EXTENDS Integers, Sequences, FiniteSets, TLC

VARIABLES
    members,        \* Group.members, as the sequence of their uids
    expenses,       \* the expenses snapshot
    contributions,  \* the pool contributions snapshot
    settlements,    \* the settlements snapshot
    balances,       \* useBalances().balances
    debts,          \* useBalances().debts
    splitArgs,      \* arguments of a calculateSplit call
    splitResult,    \* the mapping that call returned
    returned,       \* whether the call under study has returned
    halfDown,       \* whether the last computation saw half cents round down
    page            \* the Expenses page: clock, signed-in user, one expense, dialogs

vars == <<members, expenses, contributions, settlements, balances, debts,
          splitArgs, splitResult, returned, halfDown, page>>

\* The Expenses page is not mounted.
NoPage == [mounted |-> FALSE]

-----------------------------------------------------------------------------
(* Bounds *)

MaxCents == 7       \* equal-split amounts 0.00 .. 0.07 are all enumerated
MaxLen == 3         \* longest participants list
MaxNet == 4         \* net balances range over -0.04 .. 0.04
MaxMembers == 4     \* longest balances array
MaxEvents == 2      \* most expenses, contributions and settlements together

-----------------------------------------------------------------------------
(* Numbers and maps *)

\* 0.01 currency units, in mills
Cent == 10

Min(a, b) == IF a < b THEN a ELSE b

Abs(a) == IF a < 0 THEN -a ELSE a

\* Math.round(q * 100) / 100 for the exact quotient q = num / den (mills):
\* floor(q / Cent + 1/2) cents, one cent less when q is exactly a half cent
\* and the double fell short of it (down).  \div is floor division for a
\* positive divisor.
Round2Pos(num, den, down) ==
    Cent * ((2 * num + Cent * den) \div (2 * Cent * den))
    - (IF down /\ (2 * num + Cent * den) % (2 * Cent * den) = 0 THEN Cent ELSE 0)

\* The number a division by zero leaves behind (NaN or an infinity): JavaScript
\* raises no error, the value is simply not a finite amount.
NaN == 0 - 1000000000

Round2(num, den, down) ==
    IF den = 0 THEN NaN
    ELSE IF den < 0 THEN Round2Pos(-num, -den, down)
    ELSE Round2Pos(num, den, down)

EmptyMap == [u \in {} |-> 0]

\* map[k] || 0
Get(map, k) == IF k \in DOMAIN map THEN map[k] ELSE 0

Range(seq) == {seq[i] : i \in DOMAIN seq}

RECURSIVE SumOver(_, _)
\* sum of map[u] over u in S
SumOver(map, S) ==
    IF S = {} THEN 0
    ELSE LET u == CHOOSE x \in S : TRUE
         IN map[u] + SumOver(map, S \ {u})

\* Object.values(map).reduce((a, b) => a + b, 0)
SumValues(map) == SumOver(map, DOMAIN map)

-----------------------------------------------------------------------------
(* Split resolver *)

\* calculateEqualSplit without the adjustment of the first member
EqualSplitNoResidual(amount, mems, down) ==
    IF Len(mems) = 0 THEN EmptyMap
    ELSE [u \in Range(mems) |-> Round2(amount, Len(mems), down)]

\* calculateEqualSplit with the adjustment given to the last member
EqualSplitResidualLast(amount, mems, down) ==
    IF Len(mems) = 0 THEN EmptyMap
    ELSE LET share == Round2(amount, Len(mems), down)
             diff == amount - share * Len(mems)
         IN [u \in Range(mems) |->
                IF u = mems[Len(mems)] /\ diff # 0
                THEN Round2(share + diff, 1, down)
                ELSE share]

calculateEqualSplit(amount, mems, down) ==
    IF Len(mems) = 0 THEN EmptyMap
    ELSE LET share == Round2(amount, Len(mems), down)
             diff == amount - share * Len(mems)
         IN [u \in Range(mems) |->
                IF u = mems[1] /\ diff # 0
                THEN Round2(share + diff, 1, down)
                ELSE share]

\* calculatePercentageSplit that scales the percentages to their sum
PercentageSplitOfSum(amount, percentages, down) ==
    [u \in DOMAIN percentages |->
        Round2(amount * percentages[u], SumValues(percentages), down)]

calculatePercentageSplit(amount, percentages, down) ==
    [u \in DOMAIN percentages |-> Round2(amount * percentages[u], 100, down)]

\* calculateShareSplit that takes the units for percentages
ShareSplitPerHundred(amount, shares, down) ==
    IF SumValues(shares) = 0 THEN EmptyMap
    ELSE [u \in DOMAIN shares |-> Round2(amount * shares[u], 100, down)]

\* calculateShareSplit without the totalShares === 0 guard
ShareSplitNoGuard(amount, shares, down) ==
    [u \in DOMAIN shares |-> Round2(amount * shares[u], SumValues(shares), down)]

calculateShareSplit(amount, shares, down) ==
    LET totalShares == SumValues(shares)
    IN IF totalShares = 0 THEN EmptyMap
       ELSE [u \in DOMAIN shares |-> Round2(amount * shares[u], totalShares, down)]

\* splitDetails ?? {}
OrEmpty(splitDetails) ==
    IF splitDetails.present THEN splitDetails.map ELSE EmptyMap

\* calculateSplit that splits equally when splitDetails is missing
SplitMissingIsEqual(amount, splitType, mems, splitDetails, down) ==
    CASE splitType = "equal" \/ ~splitDetails.present ->
            calculateEqualSplit(amount, mems, down)
      [] splitType = "unequal" -> OrEmpty(splitDetails)
      [] splitType = "percentage" ->
            calculatePercentageSplit(amount, OrEmpty(splitDetails), down)
      [] splitType = "share" ->
            calculateShareSplit(amount, OrEmpty(splitDetails), down)
      [] OTHER -> calculateEqualSplit(amount, mems, down)

\* calculateSplit whose default branch hands back splitDetails
SplitDefaultDetails(amount, splitType, mems, splitDetails, down) ==
    CASE splitType = "equal" -> calculateEqualSplit(amount, mems, down)
      [] splitType = "unequal" -> OrEmpty(splitDetails)
      [] splitType = "percentage" ->
            calculatePercentageSplit(amount, OrEmpty(splitDetails), down)
      [] splitType = "share" ->
            calculateShareSplit(amount, OrEmpty(splitDetails), down)
      [] OTHER -> OrEmpty(splitDetails)

calculateSplit(amount, splitType, mems, splitDetails, down) ==
    CASE splitType = "equal" -> calculateEqualSplit(amount, mems, down)
      [] splitType = "unequal" -> OrEmpty(splitDetails)
      [] splitType = "percentage" ->
            calculatePercentageSplit(amount, OrEmpty(splitDetails), down)
      [] splitType = "share" ->
            calculateShareSplit(amount, OrEmpty(splitDetails), down)
      [] OTHER -> calculateEqualSplit(amount, mems, down)

-----------------------------------------------------------------------------
(* Balance and debt engine *)

\* map[k] = (map[k] || 0) + v
AddTo(map, k, v) ==
    [u \in DOMAIN map \cup {k} |-> Get(map, u) + (IF u = k THEN v ELSE 0)]

\* for (const [uid, amount] of Object.entries(more)) map[uid] = (map[uid] || 0) + amount
AddAll(map, more) ==
    [u \in DOMAIN map \cup DOMAIN more |-> Get(map, u) + Get(more, u)]

\* paid and used after the Initialize loop
InitialTotals(mems) ==
    [paid |-> [u \in Range(mems) |-> 0], used |-> [u \in Range(mems) |-> 0]]

\* the body of expenses.forEach
ProcessExpense(acc, exp, down) ==
    [paid |-> AddTo(acc.paid, exp.paidBy, exp.amount),
     used |-> AddAll(acc.used,
                     calculateSplit(exp.amount, exp.splitType, exp.usedBy,
                                    exp.splitDetails, down))]

\* ProcessContribution that credits nobody
ProcessContributionIgnored(acc, c) == acc

\* the body of contributions.forEach
ProcessContribution(acc, c) ==
    [paid |-> AddTo(acc.paid, c.userId, c.amount), used |-> acc.used]

\* ProcessSettlement that forgets the receiving side
ProcessSettlementPaidOnly(acc, st) ==
    [paid |-> AddTo(acc.paid, st.fromUser, st.amount), used |-> acc.used]

\* ProcessSettlement with the two sides exchanged
ProcessSettlementReversed(acc, st) ==
    [paid |-> AddTo(acc.paid, st.toUser, st.amount),
     used |-> AddTo(acc.used, st.fromUser, st.amount)]

\* the body of settlements.forEach
ProcessSettlement(acc, st) ==
    [paid |-> AddTo(acc.paid, st.fromUser, st.amount),
     used |-> AddTo(acc.used, st.toUser, st.amount)]

RECURSIVE ForEach(_, _, _, _, _)
\* seq.forEach from index i on; kind selects the loop body
ForEach(kind, acc, seq, i, down) ==
    IF i > Len(seq) THEN acc
    ELSE ForEach(kind,
                 CASE kind = "expense" -> ProcessExpense(acc, seq[i], down)
                   [] kind = "contribution" -> ProcessContribution(acc, seq[i])
                   [] OTHER -> ProcessSettlement(acc, seq[i]),
                 seq, i + 1, down)

\* paid and used when calculateNetBalances reaches its return statement
Totals(exps, contribs, setts, mems, down) ==
    ForEach("settlement",
            ForEach("contribution",
                    ForEach("expense", InitialTotals(mems), exps, 1, down),
                    contribs, 1, down),
            setts, 1, down)

\* Summary whose netBalance is the rounded paid total alone
SummaryNetOfPaid(uid, acc, down) ==
    [uid |-> uid,
     totalPaid |-> Round2(Get(acc.paid, uid), 1, down),
     totalUsed |-> Round2(Get(acc.used, uid), 1, down),
     netBalance |-> Round2(Get(acc.paid, uid), 1, down)]

\* Summary whose netBalance rounds half cents away from zero
SummaryHalfAway(uid, acc, down) ==
    LET net == Get(acc.paid, uid) - Get(acc.used, uid)
    IN [uid |-> uid,
        totalPaid |-> Round2(Get(acc.paid, uid), 1, down),
        totalUsed |-> Round2(Get(acc.used, uid), 1, down),
        netBalance |-> IF net < 0 THEN 0 - Round2(0 - net, 1, down)
                       ELSE Round2(net, 1, down)]

\* one BalanceSummary (name and photoURL are copied through and left out)
Summary(uid, acc, down) ==
    [uid |-> uid,
     totalPaid |-> Round2(Get(acc.paid, uid), 1, down),
     totalUsed |-> Round2(Get(acc.used, uid), 1, down),
     netBalance |-> Round2(Get(acc.paid, uid) - Get(acc.used, uid), 1, down)]

\* calculateNetBalances that also emits an entry for the "pool" payer
NetBalancesWithPool(exps, contribs, setts, mems, down) ==
    LET acc == Totals(exps, contribs, setts, mems, down)
        all == IF "pool" \in DOMAIN acc.paid THEN Append(mems, "pool") ELSE mems
    IN [i \in 1..Len(all) |-> Summary(all[i], acc, down)]

calculateNetBalances(exps, contribs, setts, mems, down) ==
    LET acc == Totals(exps, contribs, setts, mems, down)
    IN [i \in 1..Len(mems) |-> Summary(mems[i], acc, down)]

\* InsertDesc that puts x before its equals (a sort that is not stable)
InsertDescBeforeEquals(sorted, x) ==
    LET before == SelectSeq(sorted, LAMBDA y : y.amount > x.amount)
        after == SelectSeq(sorted, LAMBDA y : y.amount <= x.amount)
    IN before \o <<x>> \o after

\* x inserted into a list sorted by descending amount, after its equals
InsertDesc(sorted, x) ==
    LET before == SelectSeq(sorted, LAMBDA y : y.amount >= x.amount)
        after == SelectSeq(sorted, LAMBDA y : y.amount < x.amount)
    IN before \o <<x>> \o after

RECURSIVE SortDescFrom(_, _, _)
SortDescFrom(seq, i, sorted) ==
    IF i > Len(seq) THEN sorted
    ELSE SortDescFrom(seq, i + 1, InsertDesc(sorted, seq[i]))

\* seq.sort((a, b) => b.amount - a.amount); Array.prototype.sort is stable
SortDesc(seq) == SortDescFrom(seq, 1, <<>>)

\* Party that is the BalanceSummary object itself, with an amount field
PartyShared(b) ==
    [uid |-> b.uid, amount |-> Abs(b.netBalance), off |-> 0, shared |-> TRUE]

\* one entry of debtors or creditors; off is the sign of (the double held in
\* amount - the exact amount), tracked only where the loop can observe it.
\* The callback of map returns an object literal: the entry is a new object
\* and shares nothing with b.
Party(b) ==
    [uid |-> b.uid, amount |-> Abs(b.netBalance), off |-> 0, shared |-> FALSE]

\* Debtors without the netBalance < -0.01 filter
DebtorsUnfiltered(bals) ==
    SortDesc([i \in 1..Len(bals) |-> Party(bals[i])])

Debtors(bals) ==
    LET owing == SelectSeq(bals, LAMBDA b : b.netBalance < -Cent)
    IN SortDesc([i \in 1..Len(owing) |-> Party(owing[i])])

\* Creditors without the netBalance > 0.01 filter
CreditorsUnfiltered(bals) ==
    SortDesc([i \in 1..Len(bals) |-> Party(bals[i])])

Creditors(bals) ==
    LET owed == SelectSeq(bals, LAMBDA b : b.netBalance > Cent)
    IN SortDesc([i \in 1..Len(owed) |-> Party(owed[i])])

\* the signs a remainder r left by `-= amount` can have against its exact value
Offs(r) == IF r = Cent THEN {-1, 0, 1} ELSE {0}

\* p.amount < 0.01 on the doubles
Below(p) == p.amount < Cent \/ (p.amount = Cent /\ p.off < 0)

\* Math.min(d.amount, c.amount) > 0.01 on the doubles
Above(d, c) ==
    LET amount == Min(d.amount, c.amount)
        off == IF d.amount < c.amount THEN d.off
               ELSE IF c.amount < d.amount THEN c.off
               ELSE Min(d.off, c.off)
    IN amount > Cent \/ (amount = Cent /\ off > 0)

\* Pushed that records the debtor's whole remaining amount
PushedDebtorAmount(out, d, c) ==
    IF Above(d, c)
    THEN Append(out, [from |-> d.uid, to |-> c.uid,
                      amount |-> Round2(d.amount, 1, FALSE)])
    ELSE out

\* debts after the push of one iteration
Pushed(out, d, c) ==
    IF Above(d, c)
    THEN Append(out, [from |-> d.uid, to |-> c.uid,
                      amount |-> Round2(Min(d.amount, c.amount), 1, FALSE)])
    ELSE out

\* p after `p.amount -= amount`, the double landing on side off
Reduced(p, amount, off) == [p EXCEPT !.amount = @ - amount, !.off = off]

RECURSIVE MatchLoopKeepCreditor(_, _, _, _, _)
\* MatchLoop that forgets to reduce the creditor, and so never leaves it
MatchLoopKeepCreditor(ds, cs, i, j, out) ==
    IF ~(i <= Len(ds) /\ j <= Len(cs)) THEN {out}
    ELSE LET amount == Min(ds[i].amount, cs[j].amount)
         IN UNION { LET d2 == Reduced(ds[i], amount, dOff)
                    IN MatchLoopKeepCreditor([ds EXCEPT ![i] = d2], cs,
                           IF Below(d2) THEN i + 1 ELSE i, j,
                           Pushed(out, ds[i], cs[j]))
                    : dOff \in Offs(ds[i].amount - amount) }

RECURSIVE MatchLoop(_, _, _, _, _)
\* the while loop of calculateDebts; i and j are the 1-based pointers.  The
\* result is the set of debts lists the loop can end with.
MatchLoop(ds, cs, i, j, out) ==
    IF ~(i <= Len(ds) /\ j <= Len(cs)) THEN {out}
    ELSE LET amount == Min(ds[i].amount, cs[j].amount)
         IN UNION { LET d2 == Reduced(ds[i], amount, offs[1])
                        c2 == Reduced(cs[j], amount, offs[2])
                    IN MatchLoop([ds EXCEPT ![i] = d2], [cs EXCEPT ![j] = c2],
                           IF Below(d2) THEN i + 1 ELSE i,
                           IF Below(c2) THEN j + 1 ELSE j,
                           Pushed(out, ds[i], cs[j]))
                    : offs \in Offs(ds[i].amount - amount)
                                \X Offs(cs[j].amount - amount) }

\* the Debt lists calculateDebts can return for bals
calculateDebts(bals) ==
    MatchLoop(Debtors(bals), Creditors(bals), 1, 1, <<>>)

\* bals as calculateDebts leaves it: the loop assigns to debtors[i].amount
\* and creditors[j].amount, which reaches an entry of bals only if the
\* party is that same object
BalancesAfterDebts(bals) ==
    [k \in DOMAIN bals |->
        IF /\ bals[k].netBalance < -Cent \/ bals[k].netBalance > Cent
           /\ Party(bals[k]).shared
        THEN [bals[k] EXCEPT !.netBalance = 0]
        ELSE bals[k]]

-----------------------------------------------------------------------------
(* Inputs of a calculateSplit call *)

Uids == {"A", "B", "C", "D"}

\* Lists of at most n distinct uids drawn from S.  Expense.usedBy never
\* repeats a uid: AddExpense fills it from the member list and toggles uids
\* in and out of it.
DistinctSeqs(S, n) ==
    {s \in UNION {[1..k -> S] : k \in 0..n} :
        \A i, j \in DOMAIN s : i # j => s[i] # s[j]}

\* a usedBy list of five members
FiveMembers == <<"A", "B", "C", "D", "E">>

Participants == DistinctSeqs(Uids, MaxLen) \cup {FiveMembers}

SplitTypes == {"equal", "unequal", "percentage", "share", "custom"}

Absent == [present |-> FALSE, map |-> EmptyMap]

Present(map) == [present |-> TRUE, map |-> map]

DetailMaps ==
    { EmptyMap,
      [u \in {"A", "B"} |-> 0],
      [u \in {"A", "B"} |-> IF u = "A" THEN 1 ELSE -1],
      [u \in {"A", "B"} |-> IF u = "A" THEN 1 ELSE 2],
      [u \in {"A", "B"} |-> 50],
      [u \in {"A", "B", "C"} |-> IF u = "A" THEN 2 ELSE 1],
      [u \in {"B", "D"} |-> IF u = "B" THEN 40 ELSE 25] }

DetailOptions == {Absent} \cup {Present(m) : m \in DetailMaps}

\* 0.00 .. MaxCents/100 in whole cents, 0.29, 100.00 and 300.00, and two
\* amounts that are not whole cents (0.005 and 10.005): the amount fields of
\* the pages take any decimal.
SplitAmounts ==
    {Cent * c : c \in 0..MaxCents} \cup {290, 100000, 300000} \cup {5, 10005}

SplitInputs ==
    [amount : SplitAmounts, splitType : SplitTypes,
     members : Participants, splitDetails : DetailOptions]

-----------------------------------------------------------------------------
(* The specification of one calculateSplit call *)

InitSplit ==
    /\ splitArgs \in SplitInputs
    /\ splitResult = EmptyMap
    /\ returned = FALSE
    /\ members = <<>>
    /\ expenses = <<>>
    /\ contributions = <<>>
    /\ settlements = <<>>
    /\ balances = <<>>
    /\ debts = <<>>
    /\ halfDown = FALSE
    /\ page = NoPage

CallCalculateSplit ==
    /\ ~returned
    /\ halfDown' \in BOOLEAN
    /\ splitResult' = calculateSplit(splitArgs.amount, splitArgs.splitType,
                                     splitArgs.members, splitArgs.splitDetails,
                                     halfDown')
    /\ returned' = TRUE
    /\ UNCHANGED <<page, members, expenses, contributions, settlements, balances,
                   debts, splitArgs>>

NextSplit == CallCalculateSplit

SpecSplit == InitSplit /\ [][NextSplit]_vars

-----------------------------------------------------------------------------
(* The specification of one calculateDebts call *)

UidOrder == <<"A", "B", "C", "D", "E", "F", "G", "H">>

\* A members list of n distinct uids, and one of n entries that repeats its
\* first three uids.  calculateDebts never looks into a uid, so which uids
\* stand at which place makes no difference beyond which places are equal.
MemberNames(n) ==
    { [i \in 1..n |-> UidOrder[i]],
      [i \in 1..n |-> UidOrder[((i - 1) % 3) + 1]] }

NetRange == {Cent * c : c \in (0 - MaxNet)..MaxNet}

\* The balances calculateNetBalances returns for a members list and totals
\* that leave uid u with net[u]: one entry per place of the list, entries of
\* the same uid alike, every netBalance in whole cents.
BalancesOf(names, net) ==
    [i \in 1..Len(names) |->
        [uid |-> names[i],
         totalPaid |-> IF net[names[i]] > 0 THEN net[names[i]] ELSE 0,
         totalUsed |-> IF net[names[i]] < 0 THEN 0 - net[names[i]] ELSE 0,
         netBalance |-> net[names[i]]]]

NoArgs ==
    [amount |-> 0, splitType |-> "equal", members |-> <<>>,
     splitDetails |-> Absent]

InitDebts ==
    /\ \E n \in 0..MaxMembers :
         \E names \in MemberNames(n) :
            \E net \in [Range(names) -> NetRange] :
                balances = BalancesOf(names, net)
    /\ debts = <<>>
    /\ members = [i \in 1..Len(balances) |-> balances[i].uid]
    /\ expenses = <<>>
    /\ contributions = <<>>
    /\ settlements = <<>>
    /\ splitArgs = NoArgs
    /\ splitResult = EmptyMap
    /\ returned = FALSE
    /\ halfDown = FALSE
    /\ page = NoPage

CallCalculateDebts ==
    /\ ~returned
    /\ debts' \in calculateDebts(balances)
    /\ balances' = BalancesAfterDebts(balances)
    /\ returned' = TRUE
    /\ UNCHANGED <<page, members, expenses, contributions, settlements,
                   splitArgs, splitResult, halfDown>>

NextDebts == CallCalculateDebts

SpecDebts == InitDebts /\ [][NextDebts]_vars

-----------------------------------------------------------------------------
(* The ledger: a group's snapshots and the balances derived from them *)

\* Group.members of the active group
MemberLists == {<<"A", "B">>, <<"A", "B", "C">>}

Pool == "pool"

\* AddExpense.handleSubmit: paidBy is "pool" exactly for a pool-mode expense
Expense(amount, paidBy, usedBy, splitType, splitDetails) ==
    [amount |-> amount, paidBy |-> paidBy, usedBy |-> usedBy,
     splitType |-> splitType, splitDetails |-> splitDetails,
     mode |-> IF paidBy = Pool THEN "pool" ELSE "direct"]

\* Payers: the members, the pool, and (for the two-member group) C, a uid
\* whose events outlive its membership.
Payers == {"A", "B", "C", Pool}

\* 0.02, 0.03, 200.00, 300.00
LedgerAmounts == {20, 30, 200000, 300000}

EqualExpenses ==
    { Expense(a, p, ub, "equal", Absent) :
        a \in LedgerAmounts, p \in Payers,
        ub \in {<<"A", "B">>, <<"A", "B", "C">>} }

DetailedExpenses ==
    { Expense(200000, p, <<"A", "B">>, t, sd) :
        p \in {"A", Pool},
        t \in SplitTypes \ {"equal"},
        sd \in {Absent,
                Present([u \in {"A", "B"} |-> 50]),
                Present([u \in {"B", "D"} |-> IF u = "B" THEN 40 ELSE 25])} }

ExpenseInputs == EqualExpenses \cup DetailedExpenses

\* Profile.handleAddPoolMoney: 500.00 for a chosen member
ContributionInputs == [userId : {"A", "B"}, amount : {500000}]

\* Settle.handleSettle records a Debt: from and to differ
SettlementInputs ==
    {st \in [fromUser : {"A", "B", "C"}, toUser : {"A", "B", "C"},
             amount : {100000}] : st.fromUser # st.toUser}

EventCount == Len(expenses) + Len(contributions) + Len(settlements)

\* useBalances: balances and debts are recomputed from every new snapshot
Derived ==
    /\ halfDown' \in BOOLEAN
    /\ \E bals \in {calculateNetBalances(expenses', contributions',
                                          settlements', members', halfDown')} :
          /\ debts' \in calculateDebts(bals)
          /\ balances' = BalancesAfterDebts(bals)

Init ==
    /\ members \in MemberLists
    /\ expenses = <<>>
    /\ contributions = <<>>
    /\ settlements = <<>>
    /\ halfDown = FALSE
    /\ page = NoPage
    /\ balances = calculateNetBalances(<<>>, <<>>, <<>>, members, halfDown)
    /\ debts \in calculateDebts(balances)
    /\ splitArgs = NoArgs
    /\ splitResult = EmptyMap
    /\ returned = FALSE

\* addExpense, then the snapshot of subscribeToExpenses (newest first)
AddExpense ==
    /\ EventCount < MaxEvents
    /\ \E e \in ExpenseInputs : expenses' = <<e>> \o expenses
    /\ UNCHANGED <<page, members, contributions, settlements, splitArgs,
                   splitResult, returned>>
    /\ Derived

\* addPoolContribution, then the snapshot of subscribeToPoolContributions
AddPoolContribution ==
    /\ EventCount < MaxEvents
    /\ \E c \in ContributionInputs : contributions' = <<c>> \o contributions
    /\ UNCHANGED <<page, members, expenses, settlements, splitArgs, splitResult,
                   returned>>
    /\ Derived

\* addSettlement, then the snapshot of subscribeToSettlements
AddSettlement ==
    /\ EventCount < MaxEvents
    /\ \E st \in SettlementInputs : settlements' = <<st>> \o settlements
    /\ UNCHANGED <<page, members, expenses, contributions, splitArgs, splitResult,
                   returned>>
    /\ Derived

Next == AddExpense \/ AddPoolContribution \/ AddSettlement

Spec == Init /\ [][Next]_vars

-----------------------------------------------------------------------------
(* The specification of one calculateNetBalances call *)

\* the lists of at most n entries drawn from S
SeqsUpTo(S, n) == UNION {[1..k -> S] : k \in 0..n}

\* the members lists of the ledger, and a group without members
CallMembers == MemberLists \cup {<<>>}

\* Expenses of every split type, with and without splitDetails, with amounts
\* and unequal values that are and are not whole cents (0.005, 0.125), with
\* an empty usedBy, paid by a member or by the pool.
CallExpenses ==
    { Expense(a, p, <<"A", "B">>, "equal", Absent) :
        a \in {5, 30, 100000}, p \in {"A", Pool} }
    \cup { Expense(100000, "B", <<>>, "equal", Absent) }
    \cup { Expense(100000, "A", <<"A", "B">>, t, Absent) :
             t \in SplitTypes \ {"equal"} }
    \cup { Expense(100000, "A", <<"A", "B">>, "unequal", Present(m)) :
             m \in { [u \in {"A", "B"} |-> IF u = "A" THEN 125 ELSE 75],
                     [u \in {"A", "B"} |-> IF u = "A" THEN 60000 ELSE 40000] } }
    \cup { Expense(100, "B", <<"A", "B">>, "share",
                   Present([u \in {"A", "B"} |-> IF u = "A" THEN 1 ELSE 2])),
           Expense(100000, "B", <<"A", "B">>, "share",
                   Present([u \in {"A", "B"} |-> 0])),
           Expense(100000, "B", <<"A", "B">>, "percentage",
                   Present([u \in {"A", "B"} |-> 50])) }

CallContributions ==
    { [userId |-> "A", amount |-> 500000], [userId |-> "B", amount |-> 5] }

CallSettlements ==
    { [fromUser |-> "A", toUser |-> "B", amount |-> 100000],
      [fromUser |-> "B", toUser |-> "A", amount |-> 125],
      [fromUser |-> "C", toUser |-> "A", amount |-> 100000] }

InitBalances ==
    /\ members \in CallMembers
    /\ expenses \in SeqsUpTo(CallExpenses, MaxEvents)
    /\ contributions \in SeqsUpTo(CallContributions, 1)
    /\ settlements \in SeqsUpTo(CallSettlements, 1)
    /\ balances = <<>>
    /\ debts = <<>>
    /\ splitArgs = NoArgs
    /\ splitResult = EmptyMap
    /\ returned = FALSE
    /\ halfDown = FALSE
    /\ page = NoPage

CallCalculateNetBalances ==
    /\ ~returned
    /\ halfDown' \in BOOLEAN
    /\ balances' = calculateNetBalances(expenses, contributions, settlements,
                                        members, halfDown')
    /\ returned' = TRUE
    /\ UNCHANGED <<page, members, expenses, contributions, settlements, debts,
                   splitArgs, splitResult>>

NextBalances == CallCalculateNetBalances

SpecBalances == InitBalances /\ [][NextBalances]_vars

-----------------------------------------------------------------------------
(* The Expenses page (src/src/pages/Expenses.tsx), for one expense of the  *)
(* list.  Times are in hours, so FORTY_EIGHT_HOURS (48 * 60 * 60 * 1000    *)
(* milliseconds in the source) is 48.  The buttons on screen are those of  *)
(* the last render: React renders again when state or a snapshot changes,  *)
(* not when time passes.                                                   *)

FORTY_EIGHT_HOURS == 48

\* The instants Date.now() takes, in hours after the start of the session.
Instants == {0, 24, 47, 48, 49, 72}

Never == 0 - 1

\* The signed-in users of the page.
PageUsers == {"A", "B"}

canEdit(exp, user, now) ==
    exp.createdBy = user /\ (now - exp.createdAt) < FORTY_EIGHT_HOURS

\* The row of the expense as the component function renders it now.
Rendered(p) ==
    [p EXCEPT !.renderedAt = p.now,
              !.editShown = p.exp.exists /\ canEdit(p.exp, p.user, p.now),
              !.deleteShown = p.exp.exists /\ p.exp.createdBy = p.user]

NoDialog == ~page.editingExpense /\ ~page.deletingExpense

InitExpenses ==
    /\ members = <<>>
    /\ expenses = <<>>
    /\ contributions = <<>>
    /\ settlements = <<>>
    /\ balances = <<>>
    /\ debts = <<>>
    /\ splitArgs = NoArgs
    /\ splitResult = EmptyMap
    /\ returned = FALSE
    /\ halfDown = FALSE
    /\ \E user \in PageUsers, createdBy \in PageUsers, createdAt \in {0, 24} :
          page = Rendered([mounted |-> TRUE, now |-> createdAt, user |-> user,
                           exp |-> [createdBy |-> createdBy,
                                    createdAt |-> createdAt,
                                    exists |-> TRUE,
                                    editedAt |-> Never, editedBy |-> "",
                                    deletedAt |-> Never, deletedBy |-> ""],
                           renderedAt |-> createdAt,
                           editShown |-> FALSE, deleteShown |-> FALSE,
                           editingExpense |-> FALSE,
                           deletingExpense |-> FALSE])

Frame ==
    UNCHANGED <<members, expenses, contributions, settlements, balances,
                debts, splitArgs, splitResult, returned, halfDown>>

\* Time passes; nothing renders.
Tick ==
    /\ \E t \in Instants : t > page.now /\ page' = [page EXCEPT !.now = t]
    /\ Frame

\* The component renders again (a snapshot, the search box, a lazy fetch).
Render ==
    /\ page' = Rendered(page)
    /\ page' # page
    /\ Frame

\* The pencil button: openEdit.
OpenEdit ==
    /\ page.editShown /\ NoDialog
    /\ page' = Rendered([page EXCEPT !.editingExpense = TRUE])
    /\ Frame

\* The backdrop of the edit sheet: setEditingExpense(null).
CloseEdit ==
    /\ page.editingExpense
    /\ page' = Rendered([page EXCEPT !.editingExpense = FALSE])
    /\ Frame

\* The checkmark of the edit sheet: handleSaveEdit and updateExpense.
handleSaveEdit ==
    /\ page.editingExpense
    /\ page' = Rendered([page EXCEPT !.exp.editedAt = page.now,
                                     !.exp.editedBy = page.user,
                                     !.editingExpense = FALSE])
    /\ Frame

\* The trash button: setDeletingExpense(exp).
OpenDelete ==
    /\ page.deleteShown /\ NoDialog
    /\ page' = Rendered([page EXCEPT !.deletingExpense = TRUE])
    /\ Frame

\* ConfirmDialog onClose: setDeletingExpense(null).
CloseDelete ==
    /\ page.deletingExpense
    /\ page' = Rendered([page EXCEPT !.deletingExpense = FALSE])
    /\ Frame

\* ConfirmDialog onConfirm: handleConfirmDelete and deleteExpense.
handleConfirmDelete ==
    /\ page.deletingExpense
    /\ page' = Rendered([page EXCEPT !.exp.exists = FALSE,
                                     !.exp.deletedAt = page.now,
                                     !.exp.deletedBy = page.user,
                                     !.deletingExpense = FALSE])
    /\ Frame

NextExpenses ==
    \/ Tick
    \/ Render
    \/ OpenEdit
    \/ CloseEdit
    \/ handleSaveEdit
    \/ OpenDelete
    \/ CloseDelete
    \/ handleConfirmDelete

SpecExpenses == InitExpenses /\ [][NextExpenses]_vars

-----------------------------------------------------------------------------
(* The settle loop: from a ledger, the Settle page records one of the      *)
(* Debts on display as a Settlement (handleSettle), the snapshot arrives   *)
(* and useBalances recomputes, again and again.  The expenses do not       *)
(* change, so the roundings of their shares do not either: halfDown is     *)
(* chosen once.                                                            *)

MaxSettles == 4

SettleExpenses ==
    { Expense(a, p, ub, "equal", Absent) :
        a \in {30, 100, 300000}, p \in {"A", "B"},
        ub \in {<<"A", "B">>, <<"A", "B", "C">>} }
    \cup { Expense(300000, Pool, <<"A", "B">>, "equal", Absent) }

InitSettle ==
    /\ members \in MemberLists
    /\ expenses \in SeqsUpTo(SettleExpenses, MaxEvents)
    /\ contributions \in SeqsUpTo(ContributionInputs, 1)
    /\ settlements \in {<<>>, <<[fromUser |-> "B", toUser |-> "A",
                                 amount |-> 100000]>>}
    /\ halfDown \in BOOLEAN
    /\ page = NoPage
    /\ balances = calculateNetBalances(expenses, contributions, settlements,
                                       members, halfDown)
    /\ debts \in calculateDebts(balances)
    /\ splitArgs = NoArgs
    /\ splitResult = EmptyMap
    /\ returned = FALSE

\* Settle.handleSettle for the Debt on display at place k, then the snapshot
\* of subscribeToSettlements and the recomputation of useBalances
handleSettle ==
    /\ Len(settlements) < MaxSettles
    /\ \E k \in DOMAIN debts :
          settlements' = <<[fromUser |-> debts[k].from, toUser |-> debts[k].to,
                            amount |-> debts[k].amount]>> \o settlements
    /\ \E bals \in {calculateNetBalances(expenses, contributions,
                                          settlements', members, halfDown)} :
          /\ debts' \in calculateDebts(bals)
          /\ balances' = BalancesAfterDebts(bals)
    /\ UNCHANGED <<page, members, expenses, contributions, splitArgs,
                   splitResult, returned, halfDown>>

NextSettle == handleSettle

\* handleSettle is enabled: a Debt is on display
SettleOn == debts # <<>> /\ Len(settlements) < MaxSettles

\* The loop goes on while a Debt is on display: weak fairness of
\* handleSettle, with its enabling condition written out.
SpecSettle ==
    /\ InitSettle /\ [][NextSettle]_vars
    /\ ([]<>(~SettleOn) \/ []<><<handleSettle>>_vars)

-----------------------------------------------------------------------------
(* Confirming a settlement (src/src/pages/Settle.tsx, the Settle           *)
(* Confirmation Modal).  Two sessions, of one user or of two members, show *)
(* the Settle page of the same group.  Each has its own snapshot of the    *)
(* settlements collection (here: how many of the recorded settlements it   *)
(* has seen), its own settlingDebt and settled, and its own addSettlement  *)
(* calls that have not resolved yet.  settlements, balances and debts are  *)
(* the collection and what it amounts to.                                  *)

Clients == {1, 2}

\* at most this many settlements are recorded
MaxConfirms == 2

NoDebt == [from |-> "", to |-> "", amount |-> 0]

\* the ledgers the sessions start from: A owes B 1500.00, or B and C owe A
\* 1000.00 each
ConfirmLedgers ==
    { [members |-> <<"A", "B">>,
       expenses |-> <<Expense(300000, "B", <<"A", "B">>, "equal", Absent)>>],
      [members |-> <<"A", "B", "C">>,
       expenses |-> <<Expense(300000, "A", <<"A", "B", "C">>, "equal",
                              Absent)>>] }

\* the Debts session c displays: useBalances on its snapshot
DisplayedDebts(c) ==
    calculateDebts(calculateNetBalances(expenses, contributions,
                                        SubSeq(settlements, 1, page.seen[c]),
                                        members, halfDown))

InitConfirm ==
    /\ \E l \in ConfirmLedgers : members = l.members /\ expenses = l.expenses
    /\ contributions = <<>>
    /\ settlements = <<>>
    /\ halfDown = FALSE
    /\ balances = calculateNetBalances(expenses, contributions, settlements,
                                       members, halfDown)
    /\ debts \in calculateDebts(balances)
    /\ page = [mounted |-> TRUE,
               seen |-> [c \in Clients |-> 0],
               settlingDebt |-> [c \in Clients |-> NoDebt],
               settled |-> [c \in Clients |-> FALSE],
               pending |-> [c \in Clients |-> 0],
               timers |-> [c \in Clients |-> 0]]
    /\ splitArgs = NoArgs
    /\ splitResult = EmptyMap
    /\ returned = FALSE

ConfirmFrame ==
    UNCHANGED <<members, expenses, contributions, splitArgs, splitResult,
                returned, halfDown>>

\* the snapshot listener of session c fires
Snapshot(c) ==
    /\ page.seen[c] < Len(settlements)
    /\ page' = [page EXCEPT !.seen[c] = Len(settlements)]
    /\ UNCHANGED <<settlements, balances, debts>>
    /\ ConfirmFrame

\* a Settle button of session c: setSettlingDebt(d)
OpenSettle(c) ==
    /\ page.settlingDebt[c] = NoDebt
    /\ \E ds \in DisplayedDebts(c) :
          \E k \in DOMAIN ds : page' = [page EXCEPT !.settlingDebt[c] = ds[k]]
    /\ UNCHANGED <<settlements, balances, debts>>
    /\ ConfirmFrame

\* Cancel, or the backdrop while not settled: setSettlingDebt(null)
CancelSettle(c) ==
    /\ page.settlingDebt[c] # NoDebt /\ ~page.settled[c]
    /\ page' = [page EXCEPT !.settlingDebt[c] = NoDebt]
    /\ UNCHANGED <<settlements, balances, debts>>
    /\ ConfirmFrame

\* Confirm: handleSettle up to its await; addSettlement writes the document
Confirm(c) ==
    /\ page.settlingDebt[c] # NoDebt /\ ~page.settled[c]
    /\ Len(settlements) < MaxConfirms
    /\ settlements' = Append(settlements,
                             [fromUser |-> page.settlingDebt[c].from,
                              toUser |-> page.settlingDebt[c].to,
                              amount |-> page.settlingDebt[c].amount])
    /\ page' = [page EXCEPT !.pending[c] = @ + 1]
    /\ \E bals \in {calculateNetBalances(expenses, contributions,
                                          settlements', members, halfDown)} :
          /\ debts' \in calculateDebts(bals)
          /\ balances' = BalancesAfterDebts(bals)
    /\ ConfirmFrame

\* addSettlement resolves: handleSettle after its await
Resolved(c) ==
    /\ page.pending[c] > 0
    /\ page' = [page EXCEPT !.pending[c] = @ - 1, !.settled[c] = TRUE,
                            !.timers[c] = @ + 1]
    /\ UNCHANGED <<settlements, balances, debts>>
    /\ ConfirmFrame

\* the setTimeout callback of handleSettle
CloseSettled(c) ==
    /\ page.timers[c] > 0
    /\ page' = [page EXCEPT !.timers[c] = @ - 1, !.settlingDebt[c] = NoDebt,
                            !.settled[c] = FALSE]
    /\ UNCHANGED <<settlements, balances, debts>>
    /\ ConfirmFrame

NextConfirm ==
    \/ \E c \in Clients : Snapshot(c)
    \/ \E c \in Clients : OpenSettle(c)
    \/ \E c \in Clients : CancelSettle(c)
    \/ \E c \in Clients : Confirm(c)
    \/ \E c \in Clients : Resolved(c)
    \/ \E c \in Clients : CloseSettled(c)

SpecConfirm == InitConfirm /\ [][NextConfirm]_vars

-----------------------------------------------------------------------------
(* Properties of calculateSplit, checked under SpecSplit *)

EqualCall ==
    /\ returned
    /\ splitArgs.splitType = "equal"
    /\ Len(splitArgs.members) > 0

WholeCents(x) == x % Cent = 0

\* C3  Equal-split exactness: for an amount in whole cents and a non-empty
\* participants list, the shares of an equal split sum to exactly the amount.
C3_EqualSplitExact ==
    (EqualCall /\ WholeCents(splitArgs.amount))
        => SumValues(splitResult) = splitArgs.amount

\* 0.07 among three: the rounded shares alone sum to 0.06, the first
\* participant's 0.03 makes it 0.07.
C3_Witness ==
    /\ EqualCall
    /\ splitArgs.amount = 7 * Cent
    /\ Len(splitArgs.members) = 3
    /\ Len(splitArgs.members) * Round2(splitArgs.amount, 3, halfDown) = 6 * Cent
    /\ SumValues(splitResult) = 7 * Cent

ShareCallZeroTotal ==
    /\ returned
    /\ splitArgs.splitType = "share"
    /\ SumValues(OrEmpty(splitArgs.splitDetails)) = 0

\* C7  Share-split zero guard: a share split whose splitDetails values sum to
\* 0 (an empty or absent splitDetails included) returns the empty mapping, so
\* no share is the result of a division by zero.
C7_ShareZeroGuard ==
    ShareCallZeroTotal
        => /\ splitResult = EmptyMap
           /\ \A u \in DOMAIN splitResult : splitResult[u] # NaN

\* splitDetails has entries, they sum to 0, and the call returned {}.
C7_Witness ==
    /\ ShareCallZeroTotal
    /\ splitArgs.splitDetails.present
    /\ DOMAIN splitArgs.splitDetails.map # {}
    /\ splitArgs.amount > 0
    /\ splitResult = EmptyMap

KnownSplitTypes == {"equal", "unequal", "percentage", "share"}

\* C13  Unknown split type fallback: for a splitType other than 'equal',
\* 'unequal', 'percentage' and 'share', calculateSplit returns the mapping
\* it returns for 'equal' with the same amount and participants.
C13_UnknownTypeIsEqual ==
    (returned /\ splitArgs.splitType \notin KnownSplitTypes)
        => splitResult = calculateSplit(splitArgs.amount, "equal",
                                        splitArgs.members, Absent, halfDown)

\* 'custom' with splitDetails {A: 50, B: 50}: 100.00 among A, B and C is
\* still split equally, residual to A.
C13_Witness ==
    /\ returned
    /\ splitArgs.splitType = "custom"
    /\ splitArgs.amount = 100000
    /\ splitArgs.members = <<"A", "B", "C">>
    /\ splitArgs.splitDetails = Present([u \in {"A", "B"} |-> 50])
    /\ splitResult = [u \in {"A", "B", "C"} |->
                             IF u = "A" THEN 33340 ELSE 33330]

\* C15  Percentage split: the result has one entry per uid of splitDetails,
\* round2(amount * pct / 100) for its entry pct, whatever the percentages
\* sum to.
C15_PercentageShares ==
    (returned /\ splitArgs.splitType = "percentage") =>
        LET pcts == OrEmpty(splitArgs.splitDetails)
        IN /\ DOMAIN splitResult = DOMAIN pcts
           /\ \A u \in DOMAIN pcts :
                  splitResult[u]
                      = Round2(splitArgs.amount * pcts[u], 100, halfDown)

\* 1 % and 2 % of 1000.00: 10.00 and 20.00, which do not sum to 1000.00.
C15_Witness ==
    /\ returned
    /\ splitArgs.splitType = "percentage"
    /\ splitArgs.amount = 100000
    /\ splitArgs.splitDetails =
           Present([u \in {"A", "B"} |-> IF u = "A" THEN 1 ELSE 2])
    /\ splitResult = [u \in {"A", "B"} |-> IF u = "A" THEN 1000 ELSE 2000]

\* C16  Share split, for splitDetails values that sum to T # 0: the result
\* has one entry per uid of splitDetails, round2(amount * units / T) for its
\* entry units.
C16_ShareShares ==
    (returned /\ splitArgs.splitType = "share"
              /\ SumValues(OrEmpty(splitArgs.splitDetails)) # 0) =>
        LET units == OrEmpty(splitArgs.splitDetails)
        IN /\ DOMAIN splitResult = DOMAIN units
           /\ \A u \in DOMAIN units :
                  splitResult[u] = Round2(splitArgs.amount * units[u],
                                          SumValues(units), halfDown)

\* 1 and 2 units of 1000.00: 333.33 and 666.67.
C16_Witness ==
    /\ returned
    /\ splitArgs.splitType = "share"
    /\ splitArgs.amount = 100000
    /\ splitArgs.splitDetails =
           Present([u \in {"A", "B"} |-> IF u = "A" THEN 1 ELSE 2])
    /\ splitResult = [u \in {"A", "B"} |-> IF u = "A" THEN 33330 ELSE 66670]

-----------------------------------------------------------------------------
(* Properties of calculateDebts, checked under SpecDebts *)

RECURSIVE SumSeq(_, _, _)
\* sum of Val(seq[k]) over the places k >= i of seq
SumSeq(seq, Val(_), i) ==
    IF i > Len(seq) THEN 0 ELSE Val(seq[i]) + SumSeq(seq, Val, i + 1)

DistinctUids(bals) ==
    \A i, j \in DOMAIN bals : i # j => bals[i].uid # bals[j].uid

IsDebtor(b) == b.netBalance < -Cent

IsCreditor(b) == b.netBalance > Cent

NumDebtors == Cardinality({i \in DOMAIN balances : IsDebtor(balances[i])})

NumCreditors == Cardinality({i \in DOMAIN balances : IsCreditor(balances[i])})

\* what uid has paid out, and what it has received, once every Debt is executed
PaidOut(uid) == SumSeq(debts, LAMBDA d : IF d.from = uid THEN d.amount ELSE 0, 1)

Received(uid) == SumSeq(debts, LAMBDA d : IF d.to = uid THEN d.amount ELSE 0, 1)

\* the balance of entry b once every Debt is executed
Settled(b) == b.netBalance + PaidOut(b.uid) - Received(b.uid)

Balanced ==
    /\ DistinctUids(balances)
    /\ SumSeq(balances, LAMBDA b : b.netBalance, 1) = 0

\* C2  Debt settlement correctness, for balances of distinct uids that sum
\* to zero: executing every Debt returned leaves every member's balance
\* within 0.01 of zero.
C2_SettlesEveryMember ==
    (returned /\ Balanced)
        => \A i \in DOMAIN balances : Abs(Settled(balances[i])) <= Cent

\* C4  Debt count bound: calculateDebts returns no Debt when there is no
\* debtor or no creditor, and at most #debtors + #creditors - 1 otherwise.
C4_DebtCountBound ==
    returned =>
        IF NumDebtors = 0 \/ NumCreditors = 0
        THEN debts = <<>>
        ELSE Len(debts) <= NumDebtors + NumCreditors - 1

\* One debtor and two creditors settled by two Debts: the bound is met.
C4_Witness ==
    /\ returned
    /\ NumDebtors = 1
    /\ NumCreditors = 2
    /\ Len(debts) = NumDebtors + NumCreditors - 1

\* C5  No self-debt: no Debt returned has from equal to to, also when the
\* members list names a uid more than once.
C5_NoSelfDebt ==
    returned => \A k \in DOMAIN debts : debts[k].from # debts[k].to

\* A members list that repeats a uid, with Debts to and from that uid.
C5_Witness ==
    /\ returned
    /\ ~DistinctUids(balances)
    /\ \E k \in DOMAIN debts : debts[k].from = "A"
    /\ \E k \in DOMAIN debts : debts[k].to = "B"

-----------------------------------------------------------------------------
(* Properties of the ledger, checked under Spec *)

NetSum == SumSeq(balances, LAMBDA b : b.netBalance, 1)

\* C1 as stated: for any members and any expenses, contributions and
\* settlements, the netBalance values returned sum to 0 within 0.02.
C1_AsStated == Abs(NetSum) <= 2 * Cent

IsMember(uid) == uid \in Range(members)

\* every event moves money between members only, in equal parts
AmongMembers ==
    /\ contributions = <<>>
    /\ \A i \in DOMAIN expenses :
          /\ expenses[i].splitType \notin {"unequal", "percentage", "share"}
          /\ expenses[i].amount % Cent = 0
          /\ IsMember(expenses[i].paidBy)
          /\ expenses[i].usedBy # <<>>
          /\ \A k \in DOMAIN expenses[i].usedBy : IsMember(expenses[i].usedBy[k])
    /\ \A i \in DOMAIN settlements :
          IsMember(settlements[i].fromUser) /\ IsMember(settlements[i].toUser)

\* C1 (amended)  Conservation: for members of distinct uids, with no pool
\* contributions, every expense in whole cents, paid by a member and split
\* equally (or by an unrecognised type) among a non-empty usedBy of distinct
\* members, and every settlement between members, the netBalance values
\* returned sum to exactly 0.
C1_Conservation == AmongMembers => NetSum = 0

\* 0.02 split among three (shares 0.00, 0.01, 0.01 after the residual) and
\* a settlement, and the nets still cancel.
C1_Witness ==
    /\ AmongMembers
    /\ Len(settlements) = 1
    /\ Len(expenses) = 1
    /\ expenses[1].amount = 20
    /\ Len(expenses[1].usedBy) = 3
    /\ NetSum = 0
    /\ \E i \in DOMAIN balances : balances[i].netBalance # 0

\* the uids whose used total the expense adds to (lines 93-95)
Charged(exp) ==
    DOMAIN calculateSplit(exp.amount, exp.splitType, exp.usedBy,
                          exp.splitDetails, halfDown)

\* C6  Participants charged: for every expense of every split type, the uids
\* whose used total the expense adds to are exactly its usedBy.
C6_ChargedIsUsedBy ==
    \A i \in DOMAIN expenses : Charged(expenses[i]) = Range(expenses[i].usedBy)

\* one expense paid by a member and split equally among all the members
SingleEqualExpense ==
    /\ Len(expenses) = 1
    /\ contributions = <<>>
    /\ settlements = <<>>
    /\ expenses[1].splitType = "equal"
    /\ IsMember(expenses[1].paidBy)
    /\ Range(expenses[1].usedBy) = Range(members)
    /\ expenses[1].amount % (Len(members) * Cent) = 0

\* the members other than uid, in members-array order
RECURSIVE Others(_, _)
Others(uid, i) ==
    IF i > Len(members) THEN <<>>
    ELSE IF members[i] = uid THEN Others(uid, i + 1)
    ELSE <<members[i]>> \o Others(uid, i + 1)

\* balances and debts of the scenario, for a share s
EqualExpenseOutcome(s) ==
    LET payer == expenses[1].paidBy
        rest == Others(payer, 1)
    IN /\ \A i \in DOMAIN balances :
            balances[i].netBalance =
                IF balances[i].uid = payer THEN (Len(members) - 1) * s ELSE 0 - s
       /\ debts = [k \in 1..Len(rest) |->
                      [from |-> rest[k], to |-> payer, amount |-> s]]

\* C8 as stated: for one expense of n * s split equally among all n members
\* and paid by member A, A.net = (n - 1) * s, every other net = -s, and the
\* debts are one {from: X, to: A, amount: s} per other member X, in
\* members-array order.
C8_AsStated ==
    SingleEqualExpense => EqualExpenseOutcome(expenses[1].amount \div Len(members))

\* C8 (amended)  The same, for a share s of at least 0.02.
C8_SingleEqualExpense ==
    (SingleEqualExpense /\ expenses[1].amount \div Len(members) > Cent)
        => EqualExpenseOutcome(expenses[1].amount \div Len(members))

\* 300.00 among A, B and C paid by A: debts [B -> A 100.00, C -> A 100.00].
C8_Witness ==
    /\ SingleEqualExpense
    /\ members = <<"A", "B", "C">>
    /\ expenses[1].amount = 300000
    /\ expenses[1].paidBy = "A"
    /\ debts = <<[from |-> "B", to |-> "A", amount |-> 100000],
                 [from |-> "C", to |-> "A", amount |-> 100000]>>

\* a contribution of 500.00 by A and an expense of 200.00 split equally
\* between A and B and paid by "pool"
PoolScenario ==
    /\ contributions = <<[userId |-> "A", amount |-> 500000]>>
    /\ expenses = <<Expense(200000, Pool, <<"A", "B">>, "equal", Absent)>>
    /\ settlements = <<>>

NetOf(uid) ==
    LET i == CHOOSE k \in DOMAIN balances : balances[k].uid = uid
    IN balances[i].netBalance

HasEntry(uid) == \E k \in DOMAIN balances : balances[k].uid = uid

\* C10 as stated: a "pool" expense is credited to a "pool" pseudo-member whose
\* balance the result reports; in the scenario A.net = 400, B.net = -100 and
\* pool.net = 200.
C10_AsStated ==
    PoolScenario =>
        /\ HasEntry(Pool) /\ NetOf(Pool) = 200000
        /\ NetOf("A") = 400000
        /\ NetOf("B") = -100000

PoolExpenseTotal ==
    SumSeq(expenses, LAMBDA e : IF e.paidBy = Pool THEN e.amount ELSE 0, 1)

\* what the events credit to uid: expenses paid, contributions, settlements sent
CreditedTo(uid) ==
    SumSeq(expenses, LAMBDA e : IF e.paidBy = uid THEN e.amount ELSE 0, 1)
    + SumSeq(contributions, LAMBDA c : IF c.userId = uid THEN c.amount ELSE 0, 1)
    + SumSeq(settlements, LAMBDA st : IF st.fromUser = uid THEN st.amount ELSE 0, 1)

\* C10 (amended)  Pool-mode balances: an expense paid by "pool" is credited
\* to the "pool" key of the paid totals and to no member's totalPaid, and
\* the result has one entry per member and none for "pool"; in the scenario
\* A.net = 400 and B.net = -100.
C10_PoolNotReported ==
    /\ Get(Totals(expenses, contributions, settlements, members, halfDown).paid,
           Pool)
          = PoolExpenseTotal
    /\ Len(balances) = Len(members)
    /\ \A i \in DOMAIN balances :
          /\ balances[i].uid = members[i]
          /\ balances[i].uid # Pool
          /\ balances[i].totalPaid = CreditedTo(members[i])
    /\ PoolScenario => (NetOf("A") = 400000 /\ NetOf("B") = -100000)

C10_Witness ==
    /\ PoolScenario
    /\ members = <<"A", "B">>
    /\ balances = <<[uid |-> "A", totalPaid |-> 500000, totalUsed |-> 100000,
                     netBalance |-> 400000],
                    [uid |-> "B", totalPaid |-> 0, totalUsed |-> 100000,
                     netBalance |-> -100000]>>

-----------------------------------------------------------------------------
(* Properties of calculateNetBalances, checked under SpecBalances *)

NetIsPaidMinusUsed ==
    \A i \in DOMAIN balances :
        balances[i].netBalance = balances[i].totalPaid - balances[i].totalUsed

\* C11 as stated: for any inputs, amounts and unequal split values that are
\* not whole cents included, every entry returned has
\* netBalance = totalPaid - totalUsed.
C11_AsStated == returned => NetIsPaidMinusUsed

\* every amount, and every value of the splitDetails of an unequal expense,
\* is a whole number of cents
WholeCentInputs ==
    /\ \A i \in DOMAIN expenses :
          /\ WholeCents(expenses[i].amount)
          /\ expenses[i].splitType = "unequal" =>
                \A u \in DOMAIN OrEmpty(expenses[i].splitDetails) :
                    WholeCents(OrEmpty(expenses[i].splitDetails)[u])
    /\ \A i \in DOMAIN contributions : WholeCents(contributions[i].amount)
    /\ \A i \in DOMAIN settlements : WholeCents(settlements[i].amount)

\* C11 (amended)  BalanceSummary consistency: when every amount and every
\* unequal split value is in whole cents, every entry returned has
\* netBalance = totalPaid - totalUsed.
C11_NetIsPaidMinusUsed == (returned /\ WholeCentInputs) => NetIsPaidMinusUsed

\* A paid 1000.00 and is charged 600.00 of it: net 400.00.
C11_Witness ==
    /\ returned
    /\ WholeCentInputs
    /\ \E i \in DOMAIN balances :
          /\ balances[i].totalPaid = 100000
          /\ balances[i].totalUsed = 60000
          /\ balances[i].netBalance = 40000

\* the mapping calculateSplit returns for expense exp in the call under study
SplitOf(exp) ==
    calculateSplit(exp.amount, exp.splitType, exp.usedBy, exp.splitDetails,
                   halfDown)

\* C12  Totality: calculateNetBalances returns one entry per member for every
\* input, and no share and no total in it comes from a division by zero:
\* not for an empty usedBy with split type 'equal', a zero total of share
\* units, absent splitDetails, an unknown split type, or empty member or
\* event lists.
C12_Total ==
    returned =>
        /\ Len(balances) = Len(members)
        /\ \A i \in DOMAIN expenses :
              \A u \in DOMAIN SplitOf(expenses[i]) : SplitOf(expenses[i])[u] # NaN
        /\ \A i \in DOMAIN balances :
              /\ balances[i].totalPaid # NaN
              /\ balances[i].totalUsed # NaN
              /\ balances[i].netBalance # NaN

\* An equal expense nobody uses and a share expense whose units sum to 0:
\* both payments are credited to B and nobody is charged.
C12_Witness ==
    /\ returned
    /\ members = <<"A", "B">>
    /\ Len(expenses) = 2
    /\ expenses[1].splitType = "equal" /\ expenses[1].usedBy = <<>>
    /\ expenses[2].splitType = "share"
    /\ SumValues(OrEmpty(expenses[2].splitDetails)) = 0
    /\ OrEmpty(expenses[2].splitDetails) # EmptyMap
    /\ contributions = <<>> /\ settlements = <<>>
    /\ balances = <<[uid |-> "A", totalPaid |-> 0, totalUsed |-> 0,
                     netBalance |-> 0],
                    [uid |-> "B", totalPaid |-> 200000, totalUsed |-> 0,
                     netBalance |-> 200000]>>

\* an 'unequal', 'percentage' or 'share' expense without splitDetails
MissingDetails(exp) ==
    /\ exp.splitType \in {"unequal", "percentage", "share"}
    /\ ~exp.splitDetails.present

\* seq without its i-th entry
RemoveAt(seq, i) == SubSeq(seq, 1, i - 1) \o SubSeq(seq, i + 1, Len(seq))

\* C14  Missing splitDetails: an 'unequal', 'percentage' or 'share' expense
\* without splitDetails is split as the empty mapping; against the same call
\* without that expense it leaves every used total (so every totalUsed) as
\* it was and adds its full amount to the paid total of its payer.
C14_MissingDetails ==
    returned =>
        \A i \in DOMAIN expenses :
            MissingDetails(expenses[i]) =>
                LET exp == expenses[i]
                    without == Totals(RemoveAt(expenses, i), contributions,
                                      settlements, members, halfDown)
                    with == Totals(expenses, contributions, settlements,
                                   members, halfDown)
                IN /\ SplitOf(exp) = EmptyMap
                   /\ with.used = without.used
                   /\ with.paid = AddTo(without.paid, exp.paidBy, exp.amount)
                   /\ \A k \in DOMAIN balances :
                         /\ balances[k].totalUsed
                              = Round2(Get(without.used, balances[k].uid), 1,
                                       halfDown)
                         /\ balances[k].totalPaid
                              = Round2(Get(without.paid, balances[k].uid)
                                         + (IF balances[k].uid = exp.paidBy
                                            THEN exp.amount ELSE 0),
                                       1, halfDown)

\* 1000.00 paid by A for A and B, 'unequal' without splitDetails: A is
\* credited 1000.00 and neither A nor B is charged.
C14_Witness ==
    /\ returned
    /\ members = <<"A", "B">>
    /\ expenses = <<Expense(100000, "A", <<"A", "B">>, "unequal", Absent)>>
    /\ contributions = <<>> /\ settlements = <<>>
    /\ balances = <<[uid |-> "A", totalPaid |-> 100000, totalUsed |-> 0,
                     netBalance |-> 100000],
                    [uid |-> "B", totalPaid |-> 0, totalUsed |-> 0,
                     netBalance |-> 0]>>

\* what the expenses and the settlements of the call charge to uid
UsedBy(uid) ==
    SumSeq(expenses, LAMBDA e : Get(SplitOf(e), uid), 1)
    + SumSeq(settlements, LAMBDA st : IF st.toUser = uid THEN st.amount ELSE 0, 1)

\* C19  Balance aggregation: the result has exactly one entry per member, in
\* members-array order, and the entry of member m has
\* totalPaid = round2(expenses paid by m + contributions of m + settlements
\* from m) and totalUsed = round2(m's shares from calculateSplit over all
\* expenses + settlements to m).
C19_Aggregation ==
    returned =>
        /\ Len(balances) = Len(members)
        /\ \A i \in DOMAIN balances :
              /\ balances[i].uid = members[i]
              /\ balances[i].totalPaid
                   = Round2(CreditedTo(members[i]), 1, halfDown)
              /\ balances[i].totalUsed
                   = Round2(UsedBy(members[i]), 1, halfDown)

\* A pays 1000.00 for A and B, puts 5000.00 in the pool and settles 1000.00
\* with B: A paid 7000.00 and used 500.00, B paid nothing and used 1500.00.
C19_Witness ==
    /\ returned
    /\ members = <<"A", "B">>
    /\ expenses = <<Expense(100000, "A", <<"A", "B">>, "equal", Absent)>>
    /\ contributions = <<[userId |-> "A", amount |-> 500000]>>
    /\ settlements = <<[fromUser |-> "A", toUser |-> "B", amount |-> 100000]>>
    /\ balances = <<[uid |-> "A", totalPaid |-> 700000, totalUsed |-> 50000,
                     netBalance |-> 650000],
                    [uid |-> "B", totalPaid |-> 0, totalUsed |-> 150000,
                     netBalance |-> -150000]>>

\* settlement st is between two different members
BetweenMembers(st) ==
    /\ st.fromUser # st.toUser
    /\ st.fromUser \in Range(members)
    /\ st.toUser \in Range(members)

\* C20  Settlement effect: with whole-cent amounts, against the same call
\* without it a settlement {fromUser: f, toUser: t, amount: x} between two
\* different members raises f's netBalance by exactly x, lowers t's by
\* exactly x, and leaves the totalPaid, totalUsed and netBalance of every
\* other member as they were.
C20_SettlementEffect ==
    (returned /\ WholeCentInputs) =>
        \A i \in DOMAIN settlements :
            BetweenMembers(settlements[i]) =>
                LET st == settlements[i]
                    before == calculateNetBalances(expenses, contributions,
                                                   RemoveAt(settlements, i),
                                                   members, halfDown)
                IN /\ Len(before) = Len(balances)
                   /\ \A k \in DOMAIN balances :
                         /\ before[k].uid = balances[k].uid
                         /\ balances[k].uid = st.fromUser =>
                               balances[k].netBalance
                                 = before[k].netBalance + st.amount
                         /\ balances[k].uid = st.toUser =>
                               balances[k].netBalance
                                 = before[k].netBalance - st.amount
                         /\ balances[k].uid \notin {st.fromUser, st.toUser} =>
                               balances[k] = before[k]

\* The pool paid 1000.00 for A and B, and A settles 1000.00 with B: A goes
\* from -500.00 to 500.00, B from -500.00 to -1500.00, C stays at 0.
C20_Witness ==
    /\ returned
    /\ members = <<"A", "B", "C">>
    /\ Len(expenses) = 1
    /\ expenses[1].amount = 100000
    /\ expenses[1].splitType = "equal"
    /\ expenses[1].usedBy = <<"A", "B">>
    /\ expenses[1].paidBy = Pool
    /\ contributions = <<>>
    /\ settlements = <<[fromUser |-> "A", toUser |-> "B", amount |-> 100000]>>
    /\ \E k \in DOMAIN balances :
          balances[k].uid = "A" /\ balances[k].netBalance = 50000
    /\ \E k \in DOMAIN balances :
          balances[k].uid = "B" /\ balances[k].netBalance = -150000

\* out is a whole number of cents nearest to the exact value num / den
Nearest(out, num, den) ==
    /\ WholeCents(out)
    /\ 2 * den * out - 2 * num <= Cent * den
    /\ 2 * den * out - 2 * num >= 0 - Cent * den

\* out is not half a cent below num / den: an exact half cent went up
TieUp(out, num, den) == 2 * den * out - 2 * num # 0 - Cent * den

\* an exact half cent went away from zero
TieAway(out, num, den) ==
    IF num < 0 THEN 2 * den * out - 2 * num # Cent * den
    ELSE TieUp(out, num, den)

\* the split type calculateSplit treats exp as
EffectiveType(exp) ==
    IF exp.splitType \in KnownSplitTypes THEN exp.splitType ELSE "equal"

\* The unrounded value behind share u of exp, as [num, den]: the residual
\* share of the first participant of an equal split is rounded from the
\* amount less the other participants' shares.
Unrounded(exp, u) ==
    LET t == EffectiveType(exp)
        sd == OrEmpty(exp.splitDetails)
    IN IF t = "equal"
       THEN IF u = exp.usedBy[1]
                 /\ exp.amount # SplitOf(exp)[exp.usedBy[Len(exp.usedBy)]]
                                   * Len(exp.usedBy)
            THEN [num |-> exp.amount
                            - SplitOf(exp)[exp.usedBy[Len(exp.usedBy)]]
                                * (Len(exp.usedBy) - 1),
                  den |-> 1]
            ELSE [num |-> exp.amount, den |-> Len(exp.usedBy)]
       ELSE IF t = "percentage"
       THEN [num |-> exp.amount * sd[u], den |-> 100]
       ELSE IF t = "share"
       THEN [num |-> exp.amount * sd[u], den |-> SumValues(sd)]
       ELSE [num |-> sd[u], den |-> 1]

\* Every value the call produces -- every share, total and net balance, and
\* every Debt amount calculateDebts derives from the result -- satisfies
\* Rounded(out, num, den) against its unrounded value; unequal tells whether
\* the shares of an 'unequal' split are included.
AllRounded(Rounded(_, _, _), unequal) ==
    /\ \A i \in DOMAIN expenses :
          (unequal \/ EffectiveType(expenses[i]) # "unequal") =>
              \A u \in DOMAIN SplitOf(expenses[i]) :
                  Rounded(SplitOf(expenses[i])[u],
                          Unrounded(expenses[i], u).num,
                          Unrounded(expenses[i], u).den)
    /\ \A k \in DOMAIN balances :
          /\ Rounded(balances[k].totalPaid, CreditedTo(balances[k].uid), 1)
          /\ Rounded(balances[k].totalUsed, UsedBy(balances[k].uid), 1)
          /\ Rounded(balances[k].netBalance,
                     CreditedTo(balances[k].uid) - UsedBy(balances[k].uid), 1)
    /\ \A ds \in calculateDebts(balances) :
          \A k \in DOMAIN ds : WholeCents(ds[k].amount)

\* C21 as stated: every monetary value produced is rounded to 2 decimals,
\* half cents away from zero, negative values included.  (Stated for the
\* calls in which no half cent fell short of the half in doubles.)
C21_AsStated ==
    (returned /\ ~halfDown) =>
        AllRounded(LAMBDA out, num, den :
                       Nearest(out, num, den) /\ TieAway(out, num, den), TRUE)

\* C21 (amended)  Rounding rule: every share of an equal, percentage or share
\* split, every totalPaid, totalUsed and netBalance and every Debt amount is
\* Math.round(v * 100) / 100 of its unrounded value v: the nearest cent, an
\* exact half cent going to the higher cent, negative values included
\* (-0.125 gives -0.12); the shares of an 'unequal' split are returned as
\* given.
C21_RoundingRule ==
    returned =>
        /\ AllRounded(LAMBDA out, num, den :
                          /\ Nearest(out, num, den)
                          /\ ~halfDown => TieUp(out, num, den), FALSE)
        /\ \A i \in DOMAIN expenses :
              EffectiveType(expenses[i]) = "unequal" =>
                  SplitOf(expenses[i]) = OrEmpty(expenses[i].splitDetails)

\* B settles 0.125 with A and nothing else happened: A's net of -0.125 is
\* reported as -0.12, and B's 0.125 as 0.13.
C21_Witness ==
    /\ returned
    /\ ~halfDown
    /\ members = <<"A", "B">>
    /\ expenses = <<>> /\ contributions = <<>>
    /\ settlements = <<[fromUser |-> "B", toUser |-> "A", amount |-> 125]>>
    /\ balances = <<[uid |-> "A", totalPaid |-> 0, totalUsed |-> 130,
                     netBalance |-> -120],
                    [uid |-> "B", totalPaid |-> 130, totalUsed |-> 0,
                     netBalance |-> 130]>>

-----------------------------------------------------------------------------
(* Properties of the Expenses page, checked under SpecExpenses *)

Age(t) == t - page.exp.createdAt

\* C18.  Edit/delete window: the expense is edited or deleted only by the
\* user who created it and only while less than 48 hours have passed since
\* its createdAt, and a row rendered at any later time offers neither the
\* edit nor the delete button.
C18_EditDeleteWindow ==
    /\ page.exp.editedAt # Never =>
          /\ page.exp.editedBy = page.exp.createdBy
          /\ Age(page.exp.editedAt) < FORTY_EIGHT_HOURS
    /\ page.exp.deletedAt # Never =>
          /\ page.exp.deletedBy = page.exp.createdBy
          /\ Age(page.exp.deletedAt) < FORTY_EIGHT_HOURS
    /\ Age(page.renderedAt) >= FORTY_EIGHT_HOURS =>
          ~page.editShown /\ ~page.deleteShown

-----------------------------------------------------------------------------
(* Further properties of calculateDebts, checked under SpecDebts *)

\* the entries of balances with uid
EntriesOf(uid) == {i \in DOMAIN balances : balances[i].uid = uid}

\* C22  Debt partition: in every Debt returned, from is the uid of an entry
\* with netBalance < -0.01 and to is the uid of an entry with
\* netBalance > 0.01; the uid of an entry whose netBalance lies in
\* [-0.01, 0.01] is the from or to of no Debt.
C22_DebtPartition ==
    returned =>
        /\ \A k \in DOMAIN debts :
              /\ \E i \in EntriesOf(debts[k].from) : IsDebtor(balances[i])
              /\ \E j \in EntriesOf(debts[k].to) : IsCreditor(balances[j])
        /\ \A i \in DOMAIN balances :
              Abs(balances[i].netBalance) <= Cent =>
                  \A k \in DOMAIN debts :
                      /\ debts[k].from # balances[i].uid
                      /\ debts[k].to # balances[i].uid

\* Entries at exactly -0.01 and 0.01 next to a debtor and a creditor that
\* are matched by a Debt.
C22_Witness ==
    /\ returned
    /\ \E i \in DOMAIN balances : balances[i].netBalance = 0 - Cent
    /\ \E i \in DOMAIN balances : balances[i].netBalance = Cent
    /\ Len(debts) >= 1


\* entry i of balances comes before entry j in the descending stable order
Before(i, j) ==
    \/ Abs(balances[i].netBalance) > Abs(balances[j].netBalance)
    \/ /\ Abs(balances[i].netBalance) = Abs(balances[j].netBalance)
       /\ i < j

\* uid a is listed no later than uid b among the entries satisfying Side
InOrder(a, b, Side(_)) ==
    \E i \in EntriesOf(a), j \in EntriesOf(b) :
        /\ Side(balances[i]) /\ Side(balances[j])
        /\ i = j \/ Before(i, j)

\* the entry satisfying Side that comes before every other one
First(i, Side(_)) ==
    /\ Side(balances[i])
    /\ \A j \in DOMAIN balances : (Side(balances[j]) /\ j # i) => Before(i, j)

\* C23  Greedy ordering: along the Debt list the debtors appear in
\* non-increasing order of owed amount and the creditors in non-increasing
\* order of credited amount, entries of equal amount in their order in the
\* balances array; when there is a debtor and a creditor, the first Debt is
\* from the largest debtor to the largest creditor for the smaller of their
\* two amounts.
C23_GreedyOrdering ==
    returned =>
        /\ \A k, l \in DOMAIN debts :
              k < l =>
                  /\ InOrder(debts[k].from, debts[l].from, IsDebtor)
                  /\ InOrder(debts[k].to, debts[l].to, IsCreditor)
        /\ \A i, j \in DOMAIN balances :
              (First(i, IsDebtor) /\ First(j, IsCreditor)) =>
                  /\ Len(debts) >= 1
                  /\ debts[1] = [from |-> balances[i].uid,
                                 to |-> balances[j].uid,
                                 amount |-> Min(Abs(balances[i].netBalance),
                                                balances[j].netBalance)]

\* Two debtors of 0.02 each, in array order A then B, and one creditor of
\* 0.04: the Debts are A's, then B's.
C23_Witness ==
    /\ returned
    /\ DistinctUids(balances)
    /\ Len(balances) = 3
    /\ balances[1].netBalance = 0 - 2 * Cent
    /\ balances[2].netBalance = 0 - 2 * Cent
    /\ balances[3].netBalance = 4 * Cent
    /\ Len(debts) = 2
    /\ debts[1].from = balances[1].uid
    /\ debts[2].from = balances[2].uid


\* C24  Debt amounts: every Debt returned has an amount strictly greater
\* than 0.01, in whole cents (the rounded minimum of the two remaining
\* amounts at the step that emitted it).
C24_DebtAmounts ==
    returned =>
        \A k \in DOMAIN debts :
            /\ WholeCents(debts[k].amount)
            /\ debts[k].amount > Cent


\* C25  No overpayment: for balances of distinct uids, the Debts from a
\* debtor sum to at most what it owes and the Debts to a creditor sum to at
\* most what it is owed.
C25_NoOverpayment ==
    (returned /\ DistinctUids(balances)) =>
        \A i \in DOMAIN balances :
            /\ IsDebtor(balances[i]) =>
                  PaidOut(balances[i].uid) <= Abs(balances[i].netBalance)
            /\ IsCreditor(balances[i]) =>
                  Received(balances[i].uid) <= balances[i].netBalance

\* A debtor of 0.04 pays 0.03 to a creditor of 0.03 and its last 0.01 to a
\* creditor of 0.02: it pays out exactly the 0.04 it owes, and the second
\* creditor receives less than it is owed.
C25_Witness ==
    /\ returned
    /\ DistinctUids(balances)
    /\ \E i \in DOMAIN balances :
          /\ balances[i].netBalance = 0 - 4 * Cent
          /\ PaidOut(balances[i].uid) = 4 * Cent
          /\ Cardinality({k \in DOMAIN debts :
                             debts[k].from = balances[i].uid}) = 2
    /\ \E j \in DOMAIN balances :
          /\ balances[j].netBalance = 3 * Cent
          /\ Received(balances[j].uid) = 3 * Cent
    /\ \E j \in DOMAIN balances :
          /\ balances[j].netBalance = 2 * Cent
          /\ Received(balances[j].uid) = Cent

-----------------------------------------------------------------------------
(* A further property of calculateSplit, checked under SpecSplit *)

\* C26  Non-negative equal shares: for an amount > 0 in whole cents and a
\* non-empty participants list, every share of an equal split, the first
\* participant's share after the residual adjustment included, is >= 0.
C26_NonNegativeEqualShares ==
    (EqualCall /\ splitArgs.amount > 0 /\ WholeCents(splitArgs.amount)) =>
        \A u \in DOMAIN splitResult : splitResult[u] >= 0

-----------------------------------------------------------------------------
(* The Dashboard (src/src/pages/Dashboard.tsx) and its agreement with the  *)
(* engine, checked under Spec                                              *)

Max(a, b) == IF a > b THEN a ELSE b

\* settlements.reduce of directStats: what the settlements add to user's net
settledNet(user) ==
    SumSeq(settlements,
           LAMBDA st : IF st.fromUser = user THEN 0 - st.amount
                       ELSE IF st.toUser = user THEN st.amount
                       ELSE 0, 1)

\* Dashboard.directStats for the signed-in user (totalSpend left out)
directStats(user) ==
    LET youPaid == SumSeq(expenses,
                          LAMBDA e : IF e.paidBy = user THEN e.amount ELSE 0, 1)
        yourShare == SumSeq(expenses, LAMBDA e : Get(SplitOf(e), user), 1)
        net == youPaid - yourShare + settledNet(user)
    IN [youPaid |-> youPaid,
        youGet |-> Max(0, Round2(net, 1, halfDown)),
        youOwe |-> Max(0, Round2(0 - net, 1, halfDown))]

\* C27  Dashboard agreement: with no pool contributions and whole-cent
\* amounts, for every member who may be signed in the Dashboard's youGet is
\* max(0, netBalance) and its youOwe is max(0, -netBalance), netBalance being
\* the member's value from calculateNetBalances on the same expenses and
\* settlements.
C27_DashboardAgreement ==
    (contributions = <<>> /\ WholeCentInputs) =>
        \A k \in DOMAIN balances :
            /\ directStats(balances[k].uid).youGet
                 = Max(0, balances[k].netBalance)
            /\ directStats(balances[k].uid).youOwe
                 = Max(0, 0 - balances[k].netBalance)

-----------------------------------------------------------------------------
(* The member breakdown of the Settle page (src/src/pages/Settle.tsx) and  *)
(* its agreement with the engine, checked under Spec                       *)

\* Expense.mode: AddExpense.handleSubmit sets paidBy to 'pool' exactly for a
\* pool-mode expense
ModeOf(exp) == IF exp.paidBy = Pool THEN "pool" ELSE "direct"

\* Settle.memberBreakdown for member uid of a group that is in pool mode
\* (isPool) or in direct mode
memberBreakdown(uid, isPool) ==
    LET spent == IF isPool
                 THEN SumSeq(contributions,
                             LAMBDA c : IF c.userId = uid THEN c.amount ELSE 0, 1)
                 ELSE SumSeq(expenses,
                             LAMBDA e : IF e.paidBy = uid THEN e.amount ELSE 0, 1)
        shares == SumSeq(expenses,
                         LAMBDA e : IF isPool /\ ModeOf(e) # "pool" THEN 0
                                    ELSE Get(SplitOf(e), uid), 1)
        added == Round2(spent
                        + SumSeq(settlements,
                                 LAMBDA st : IF st.fromUser = uid
                                             THEN st.amount ELSE 0, 1),
                        1, halfDown)
        used == Round2(shares
                       + SumSeq(settlements,
                                LAMBDA st : IF st.toUser = uid
                                            THEN st.amount ELSE 0, 1),
                       1, halfDown)
    IN [uid |-> uid, added |-> added, used |-> used,
        left |-> Round2(added - used, 1, halfDown)]

-----------------------------------------------------------------------------
(* Properties of the settle loop, checked under SpecSettle *)

\* the total amount owed by the debtors
Owed ==
    SumSeq(balances,
           LAMBDA b : IF IsDebtor(b) THEN 0 - b.netBalance ELSE 0, 1)

\* C29  Settle loop terminates: every recording of a displayed Debt as a
\* Settlement, followed by the recomputation, strictly decreases the total
\* amount owed by debtors, and the loop reaches an empty Debt list.
C29_SettleLoopTerminates ==
    /\ [][Owed' < Owed]_vars
    /\ <>[](debts = <<>>)

\* After the one settlement the ledger started with, two Debts have been
\* settled one after the other and none is left.
C29_Witness ==
    /\ Len(settlements) = 3
    /\ debts = <<>>
    /\ Owed = 0

-----------------------------------------------------------------------------
(* Properties of confirming a settlement, checked under SpecConfirm *)

\* what uid owes (negative) or is owed before any settlement
InitialNet(uid) ==
    LET bals == calculateNetBalances(expenses, contributions, <<>>, members,
                                     halfDown)
        i == CHOOSE k \in DOMAIN bals : bals[k].uid = uid
    IN bals[i].netBalance

\* C30  Single settlement per debt: whatever the interleaving of the two
\* sessions' Confirm actions, no Debt is recorded as a Settlement twice, and
\* the settlements push no member who owed into credit and no member who was
\* owed into debt.
C30_SingleSettlement ==
    /\ \A i, j \in DOMAIN settlements : i # j => settlements[i] # settlements[j]
    /\ \A k \in DOMAIN balances :
          /\ InitialNet(balances[k].uid) <= 0 => balances[k].netBalance <= 0
          /\ InitialNet(balances[k].uid) >= 0 => balances[k].netBalance >= 0

====
